---- MODULE Spec2Model ----
(***************************************************************************)
(* Model of the limit order book of app.py: the two doubly linked chains   *)
(* of resting orders (buy_head / sell_head, each ending in a terminal      *)
(* node), the effective bid / ask, the matching loops and add_to_book.     *)
(* One step of the model is one iteration of OrderBook.process_orders:     *)
(* parse_data builds the next Order, the order is matched if it crosses,   *)
(* and any balance is added to the book.                                   *)
(***************************************************************************)
EXTENDS Integers, Sequences, FiniteSets, TLC

\* ---------------------------------------------------------------- bounds
MaxOrders == 3      \* rows read from the input stream
MaxPrice  == 3      \* limit prices are 1..MaxPrice
MaxVolume == 3      \* order volumes are 1..MaxVolume
MaxBatch  == 2      \* rows read where runs restart or rows disclose a quantity
MaxDisclosed == 2   \* disclosed quantities are 0..MaxDisclosed
MaxStepPrice  == 2  \* limit prices where rows disclose or calls run by iteration
MaxStepVolume == 2  \* largest volume where a call runs one iteration at a time

\* ------------------------------------------------------------- constants
None == -1                      \* Python's None (a missing link, a missing id)
buy_terminal  == -2             \* the node Order(None, 'B', -inf, 0)
sell_terminal == -3             \* the node Order(None, 'S', inf, 0)
PosInf == MaxPrice + 1          \* float('inf'): above every limit price
NegInf == 0 - PosInf            \* float('-inf'): below every limit price

VARIABLES
    nodes,          \* node id -> Order object (its fields)
    buy_head,       \* OrderBook.buy_head: id of the first node of the buy chain
    sell_head,      \* OrderBook.sell_head
    effectivebid,   \* OrderBook.effectivebid
    effectiveask,   \* OrderBook.effectiveask
    executions,     \* the calls of execute_order so far, in order
    now,            \* datetime.now(): strictly increasing between orders
    incoming,       \* the row parse_data decoded for the last process step
    pc,             \* where main() is: "idle" between two rows of the stream
    loop_nd,        \* the local nd of a matching loop that is under way
    savefile,       \* what the file at SAVEFILE holds
    twin,           \* a second book fed the same rows without their visible field
    cmp             \* two or three orders and the results of comparing them

vars == <<nodes, buy_head, sell_head, effectivebid, effectiveask,
          executions, now, incoming, pc, loop_nd, savefile, twin, cmp>>

Max(a, b) == IF a >= b THEN a ELSE b
Min(a, b) == IF a <= b THEN a ELSE b
SetMin(S) == CHOOSE x \in S : \A y \in S : x <= y

\* ----------------------------------------------------------------- Order
\* Order.__init__: visible is the list of the trailing fields of the row.
Order(orderid, side, price, volume, visible, t) ==
    [orderid   |-> orderid,
     side      |-> side,
     price     |-> price,
     volume    |-> volume,
     prevnd    |-> None,
     nextnd    |-> None,
     ordertime |-> t,
     iceberg   |-> IF visible # <<>> THEN visible[1] ELSE None]

\* Order.visible_volume: None and 0 both fail the test `if self._iceberg`
visible_volume(self) ==
    IF self.iceberg # None /\ self.iceberg # 0
    THEN Min(self.iceberg, self.volume)
    ELSE self.volume

\* Order._ordertime_priority
_ordertime_priority(self, other) ==
    IF self.ordertime > other.ordertime THEN -1
    ELSE IF self.ordertime < other.ordertime THEN 1
    ELSE 0

\* SellOrder.__le__
SellOrder_le(self, other) ==
    IF other.price < self.price THEN TRUE
    ELSE IF other.price > self.price THEN FALSE
    ELSE _ordertime_priority(self, other) <= 0

\* BuyOrder.__le__
BuyOrder_le(self, other) ==
    IF other.price < self.price THEN FALSE
    ELSE IF other.price > self.price THEN TRUE
    ELSE _ordertime_priority(self, other) <= 0

\* Order.__eq__
Order_eq(self, other) ==
    self.price = other.price /\ self.ordertime = other.ordertime

\* SellOrder.__lt__
SellOrder_lt(self, other) ==
    IF other.price < self.price THEN TRUE
    ELSE IF other.price > self.price THEN FALSE
    ELSE _ordertime_priority(self, other) < 0

\* SellOrder.__gt__
SellOrder_gt(self, other) ==
    IF other.price < self.price THEN FALSE
    ELSE IF other.price > self.price THEN TRUE
    ELSE _ordertime_priority(self, other) > 0

\* SellOrder.__ge__
SellOrder_ge(self, other) ==
    IF other.price < self.price THEN FALSE
    ELSE IF other.price > self.price THEN TRUE
    ELSE _ordertime_priority(self, other) >= 0

\* BuyOrder.__lt__
BuyOrder_lt(self, other) ==
    IF other.price < self.price THEN FALSE
    ELSE IF other.price > self.price THEN TRUE
    ELSE _ordertime_priority(self, other) < 0

\* BuyOrder.__gt__
BuyOrder_gt(self, other) ==
    IF other.price < self.price THEN TRUE
    ELSE IF other.price > self.price THEN FALSE
    ELSE _ordertime_priority(self, other) > 0

\* Variant of BuyOrder_ge whose tie-break is that of __gt__
BuyOrder_ge_strict(self, other) ==
    IF other.price < self.price THEN TRUE
    ELSE IF other.price > self.price THEN FALSE
    ELSE _ordertime_priority(self, other) > 0

\* BuyOrder.__ge__
BuyOrder_ge(self, other) ==
    IF other.price < self.price THEN TRUE
    ELSE IF other.price > self.price THEN FALSE
    ELSE _ordertime_priority(self, other) >= 0

\* order <= nd: parse_data builds a BuyOrder for side 'B', else a SellOrder
le(self, other) ==
    IF self.side = "B" THEN BuyOrder_le(self, other)
    ELSE SellOrder_le(self, other)

\* ------------------------------------------------------------- OrderBook
\* The book as one value, so that the methods are operators on it.
Book == [nodes        |-> nodes,
         buy_head     |-> buy_head,
         sell_head    |-> sell_head,
         effectivebid |-> effectivebid,
         effectiveask |-> effectiveask,
         executions   |-> executions]

\* Variant of fetch_from that yields while nd, the terminal node included
RECURSIVE fetch_from_all(_, _, _)
fetch_from_all(nds, nd, fuel) ==
    IF fuel = 0 \/ nd = None THEN <<>>
    ELSE <<nd>> \o fetch_from_all(nds, nds[nd].nextnd, fuel - 1)

\* The while loop of fetch_orders from node nd: yields nd while nd.nextnd.
\* fuel bounds the unrolling by the number of nodes.
RECURSIVE fetch_from(_, _, _)
fetch_from(nds, nd, fuel) ==
    IF fuel = 0 \/ nds[nd].nextnd = None THEN <<>>
    ELSE <<nd>> \o fetch_from(nds, nds[nd].nextnd, fuel - 1)

\* OrderBook.fetch_orders: the resting orders of a side, head first
fetch_orders(b, side) ==
    IF side \notin {"B", "S"} THEN <<>>
    ELSE fetch_from(b.nodes,
                    IF side = "B" THEN b.buy_head ELSE b.sell_head,
                    Cardinality(DOMAIN b.nodes))

\* execute_order(execid, openid, price, volume)
execute_order(b, execid, openid, price, volume) ==
    [b EXCEPT !.executions = Append(@, <<execid, openid, price, volume>>)]

\* Variant of buy_confirmed that always confirms the open order's volume
buy_confirmed_open(ordvol, ndvol) == ndvol

\* The volume confirmed by one iteration of _process_buy
buy_confirmed(ordvol, ndvol) ==
    LET balance == Max(ordvol - ndvol, 0)
    IN  IF balance = 0 THEN ordvol ELSE ndvol

\* The price confirmed by one iteration of _process_buy: the open order's
buy_price(order, nd) == nd.price

\* Variant of buy_iteration that leaves the loop on a filled order before
\* it removes a filled open order
buy_iteration_break_first(b, o, nd) ==
    LET order   == b.nodes[o]
        open    == b.nodes[nd]
        balance == Max(order.volume - open.volume, 0)
        b1 == execute_order(b, order.orderid, open.orderid,
                            buy_price(order, open),
                            buy_confirmed(order.volume, open.volume))
        b2 == [b1 EXCEPT !.nodes[nd].volume = Max(open.volume - order.volume, 0),
                         !.nodes[o].volume  = balance]
    IN  IF b2.nodes[nd].volume = 0 /\ b2.nodes[o].volume # 0
        THEN LET nxt == b2.nodes[nd].nextnd
             IN  [b  |-> [b2 EXCEPT !.sell_head = nxt,
                                    !.nodes[nxt].prevnd = None,
                                    !.effectiveask = b2.nodes[nxt].price],
                  nd |-> nxt]
        ELSE [b |-> b2, nd |-> nd]

\* Variant of buy_iteration that goes past a filled open order without
\* unlinking it
buy_iteration_linked(b, o, nd) ==
    LET order   == b.nodes[o]
        open    == b.nodes[nd]
        balance == Max(order.volume - open.volume, 0)
        b1 == execute_order(b, order.orderid, open.orderid,
                            buy_price(order, open),
                            buy_confirmed(order.volume, open.volume))
        b2 == [b1 EXCEPT !.nodes[nd].volume = Max(open.volume - order.volume, 0),
                         !.nodes[o].volume  = balance]
    IN  [b  |-> b2,
         nd |-> IF b2.nodes[nd].volume = 0 THEN b2.nodes[nd].nextnd ELSE nd]

\* One iteration of the while loop of _process_buy on the open Sell nd.
\* Returns the book and the node the loop looks at next.
buy_iteration(b, o, nd) ==
    LET order   == b.nodes[o]
        open    == b.nodes[nd]
        balance == Max(order.volume - open.volume, 0)
        b1 == execute_order(b, order.orderid, open.orderid,
                            buy_price(order, open),
                            buy_confirmed(order.volume, open.volume))
        b2 == [b1 EXCEPT !.nodes[nd].volume = Max(open.volume - order.volume, 0),
                         !.nodes[o].volume  = balance]
    IN  IF b2.nodes[nd].volume = 0
        THEN LET nxt == b2.nodes[nd].nextnd
             IN  [b  |-> [b2 EXCEPT !.sell_head = nxt,
                                    !.nodes[nxt].prevnd = None,
                                    !.effectiveask = b2.nodes[nxt].price],
                  nd |-> nxt]
        ELSE [b |-> b2, nd |-> nd]

RECURSIVE buy_loop(_, _, _)
buy_loop(b, o, nd) ==
    IF b.nodes[nd].nextnd # None /\ b.nodes[nd].price <= b.nodes[o].price
    THEN LET r == buy_iteration(b, o, nd)
         IN  IF r.b.nodes[o].volume = 0 THEN r.b
             ELSE buy_loop(r.b, o, r.nd)
    ELSE b

\* OrderBook._process_buy
_process_buy(b, o) == buy_loop(b, o, b.sell_head)

\* Variant of sell_confirmed that always confirms the executing order's volume
sell_confirmed_whole(ordvol, ndvol) == ordvol

\* The volume confirmed by one iteration of _process_sell
sell_confirmed(ordvol, ndvol) ==
    LET balance == Max(ordvol - ndvol, 0)
    IN  IF balance = 0 THEN ordvol ELSE ndvol

\* Variant of sell_price that confirms at the executing order's limit
sell_price_limit(order, nd) == order.price

\* The price confirmed by one iteration of _process_sell: the open order's
sell_price(order, nd) == nd.price

\* Variant of sell_iteration that trades the open order's visible volume
sell_iteration_visible(b, o, nd) ==
    LET order   == b.nodes[o]
        open    == b.nodes[nd]
        shown   == visible_volume(open)
        balance == Max(order.volume - shown, 0)
        b1 == execute_order(b, order.orderid, open.orderid,
                            sell_price(order, open),
                            sell_confirmed(order.volume, shown))
        b2 == [b1 EXCEPT !.nodes[nd].volume =
                              open.volume - sell_confirmed(order.volume, shown),
                         !.nodes[o].volume  = balance]
    IN  IF b2.nodes[nd].volume = 0
        THEN LET nxt == b2.nodes[nd].nextnd
             IN  [b  |-> [b2 EXCEPT !.buy_head = nxt,
                                    !.nodes[nxt].prevnd = None,
                                    !.effectivebid = b2.nodes[nxt].price],
                  nd |-> nxt]
        ELSE [b |-> b2, nd |-> nd]

\* One iteration of the while loop of _process_sell on the open Buy nd.
sell_iteration(b, o, nd) ==
    LET order   == b.nodes[o]
        open    == b.nodes[nd]
        balance == Max(order.volume - open.volume, 0)
        b1 == execute_order(b, order.orderid, open.orderid,
                            sell_price(order, open),
                            sell_confirmed(order.volume, open.volume))
        b2 == [b1 EXCEPT !.nodes[nd].volume = Max(open.volume - order.volume, 0),
                         !.nodes[o].volume  = balance]
    IN  IF b2.nodes[nd].volume = 0
        THEN LET nxt == b2.nodes[nd].nextnd
             IN  [b  |-> [b2 EXCEPT !.buy_head = nxt,
                                    !.nodes[nxt].prevnd = None,
                                    !.effectivebid = b2.nodes[nxt].price],
                  nd |-> nxt]
        ELSE [b |-> b2, nd |-> nd]

RECURSIVE sell_loop(_, _, _)
sell_loop(b, o, nd) ==
    IF b.nodes[nd].nextnd # None /\ b.nodes[nd].price >= b.nodes[o].price
    THEN LET r == sell_iteration(b, o, nd)
         IN  IF r.b.nodes[o].volume = 0 THEN r.b
             ELSE sell_loop(r.b, o, r.nd)
    ELSE b

\* OrderBook._process_sell
_process_sell(b, o) == sell_loop(b, o, b.buy_head)

\* Variant of add_to_book that makes the order the only one of its chain
add_to_book_alone(b, o) ==
    LET side == b.nodes[o].side
        term == IF side = "B" THEN buy_terminal ELSE sell_terminal
        n1   == [b.nodes EXCEPT ![term].prevnd = o, ![o].nextnd = term]
    IN  IF side = "B"
        THEN [b EXCEPT !.nodes = n1, !.buy_head = o,
                       !.effectivebid = n1[o].price]
        ELSE [b EXCEPT !.nodes = n1, !.sell_head = o,
                       !.effectiveask = n1[o].price]

\* OrderBook.add_to_book
add_to_book(b, o) ==
    LET side == b.nodes[o].side
        seq  == fetch_orders(b, side)
        \* the nodes at which the for loop does not `continue`
        stop == {i \in 1..Len(seq) : ~ le(b.nodes[o], b.nodes[seq[i]])}
        n1   == IF stop # {}
                THEN LET nd == seq[SetMin(stop)]
                     IN  [b.nodes EXCEPT ![o].prevnd  = b.nodes[nd].prevnd,
                                         ![nd].prevnd = o,
                                         ![o].nextnd  = nd]
                ELSE LET prevhead == IF side = "B" THEN b.buy_head
                                     ELSE b.sell_head
                     IN  [b.nodes EXCEPT ![prevhead].prevnd = o,
                                         ![o].nextnd = prevhead]
    IN  IF n1[o].prevnd = None
        THEN IF n1[o].side = "B"
             THEN [b EXCEPT !.nodes = n1, !.buy_head = o,
                            !.effectivebid = n1[o].price]
             ELSE [b EXCEPT !.nodes = n1, !.sell_head = o,
                            !.effectiveask = n1[o].price]
        ELSE [b EXCEPT !.nodes = [n1 EXCEPT ![n1[o].prevnd].nextnd = o]]

\* Variant of process_order that adds the order whatever its balance
process_order_always_add(b, o) ==
    LET order == b.nodes[o]
        b1 == IF order.side = "B" /\ order.price >= b.effectiveask
              THEN _process_buy(b, o)
              ELSE IF order.side = "S" /\ order.price <= b.effectivebid
              THEN _process_sell(b, o)
              ELSE b
    IN  add_to_book(b1, o)

\* Variant of process_order whose second branch lost its condition
process_order_else(b, o) ==
    LET order == b.nodes[o]
        b1 == IF order.side = "B" /\ order.price >= b.effectiveask
              THEN _process_buy(b, o)
              ELSE _process_sell(b, o)
    IN  IF b1.nodes[o].volume # 0 THEN add_to_book(b1, o) ELSE b1

\* Variant of process_order that adds a balance only after matching
process_order_add_in_branch(b, o) ==
    LET order == b.nodes[o]
        add(b1) == IF b1.nodes[o].volume # 0 THEN add_to_book(b1, o) ELSE b1
    IN  IF order.side = "B" /\ order.price >= b.effectiveask
        THEN add(_process_buy(b, o))
        ELSE IF order.side = "S" /\ order.price <= b.effectivebid
        THEN add(_process_sell(b, o))
        ELSE b

\* The body of the for loop of process_orders for the order at node o
process_order(b, o) ==
    LET order == b.nodes[o]
        b1 == IF order.side = "B" /\ order.price >= b.effectiveask
              THEN _process_buy(b, o)
              ELSE IF order.side = "S" /\ order.price <= b.effectivebid
              THEN _process_sell(b, o)
              ELSE b
    IN  IF b1.nodes[o].volume # 0 THEN add_to_book(b1, o) ELSE b1

\* ---------------------------------------------------------- state machine
\* No row decoded yet
NoRow == [orderid |-> None, side |-> "B", price |-> 0, volume |-> 0,
          visible |-> <<>>]

\* OrderBook.__init__
Init ==
    /\ nodes = (buy_terminal  :> Order(None, "B", NegInf, 0, <<>>, 0))
            @@ (sell_terminal :> Order(None, "S", PosInf, 0, <<>>, 0))
    /\ buy_head = buy_terminal
    /\ sell_head = sell_terminal
    /\ effectivebid = PosInf
    /\ effectiveask = NegInf
    /\ executions = <<>>
    /\ now = 1
    /\ incoming = NoRow
    /\ pc = "idle"
    /\ loop_nd = None
    /\ savefile = [kind |-> "absent"]
    /\ twin = Book
    /\ cmp = <<>>

\* One iteration of process_orders over the stream of parse_data: the row
\* id,side,price,vol is decoded into a new Order stamped with the current
\* time, then processed.  Rows are numbered by arrival.
process_orders(side, price, vol, visible) ==
    /\ now <= MaxOrders
    /\ LET row == [orderid |-> now, side |-> side, price |-> price,
                   volume |-> vol, visible |-> visible]
           b0  == [Book EXCEPT !.nodes =
                      @ @@ (now :> Order(now, side, price, vol, visible, now))]
           b   == process_order(b0, now)
       IN  /\ incoming' = row
           /\ nodes' = b.nodes
           /\ buy_head' = b.buy_head
           /\ sell_head' = b.sell_head
           /\ effectivebid' = b.effectivebid
           /\ effectiveask' = b.effectiveask
           /\ executions' = b.executions
    /\ now' = now + 1

Next ==
    \E side \in {"B", "S"}, price \in 1..MaxPrice, vol \in 1..MaxVolume :
        /\ process_orders(side, price, vol, <<>>)
        /\ UNCHANGED <<pc, loop_nd, savefile, twin, cmp>>

Spec == Init /\ [][Next]_vars


\* ----------------------------------------------------- rendering, save, load
\* SellOrder.__str__: the price field, then the visible volume field
SellOrder_str(self) == <<self.price, visible_volume(self)>>

\* BuyOrder.__str__: the visible volume field, then the price field
BuyOrder_str(self) == <<visible_volume(self), self.price>>

\* The fillvalue of zip_longest in OrderBook.__str__: 18 blanks
Blank == <<>>

\* OrderBook.__str__: one row per rank, the shorter side padded
OrderBook_str(b) ==
    LET buys  == fetch_orders(b, "B")
        sells == fetch_orders(b, "S")
    IN  [i \in 1..Max(Len(buys), Len(sells)) |->
            << IF i <= Len(buys) THEN BuyOrder_str(b.nodes[buys[i]]) ELSE Blank,
               IF i <= Len(sells) THEN SellOrder_str(b.nodes[sells[i]]) ELSE Blank >>]

\* The objects pickle reaches from the nodes in todo through prevnd / nextnd
RECURSIVE pickled(_, _, _)
pickled(nds, todo, seen) ==
    IF todo = {} THEN seen
    ELSE LET links == UNION {{nds[n].prevnd, nds[n].nextnd} : n \in todo}
             found == seen \cup todo
         IN  pickled(nds, (links \ {None}) \ found, found)

\* pickle.dump(self, f) in OrderBook.save: the book and every Order it
\* references, directly or through the links of other Orders
pickle_dump(b) ==
    LET keep == pickled(b.nodes, {b.buy_head, b.sell_head}, {})
    IN  [nodes        |-> [n \in keep |-> b.nodes[n]],
         buy_head     |-> b.buy_head,
         sell_head    |-> b.sell_head,
         effectivebid |-> b.effectivebid,
         effectiveask |-> b.effectiveask]

\* load_book: pickle.load rebuilds the book; the new process has confirmed
\* no execution yet
load_book(file) ==
    [nodes        |-> file.data.nodes,
     buy_head     |-> file.data.buy_head,
     sell_head    |-> file.data.sell_head,
     effectivebid |-> file.data.effectivebid,
     effectiveask |-> file.data.effectiveask,
     executions   |-> <<>>]

\* OrderBook(SAVEFILE): the book __init__ builds
OrderBook_init ==
    [nodes        |-> (buy_terminal  :> Order(None, "B", NegInf, 0, <<>>, 0))
                   @@ (sell_terminal :> Order(None, "S", PosInf, 0, <<>>, 0)),
     buy_head     |-> buy_terminal,
     sell_head    |-> sell_terminal,
     effectivebid |-> PosInf,
     effectiveask |-> NegInf,
     executions   |-> <<>>]

\* Variant of restore that drops the loaded book
restore_discarded(file) == OrderBook_init

\* The book main() goes on with: the loaded one if the save file exists
restore(file) ==
    IF file.kind # "absent" THEN load_book(file) ELSE OrderBook_init

\* main() up to process_orders, in a new process.  pickle.load raises on a
\* file that holds no complete pickle, and the process ends there.
main ==
    /\ pc \in {"exited", "failed"}
    /\ LET ok == savefile.kind # "truncated"
           b  == IF ok THEN restore(savefile) ELSE OrderBook_init
       IN  /\ pc' = IF ok THEN "idle" ELSE "failed"
           /\ nodes' = b.nodes
           /\ buy_head' = b.buy_head
           /\ sell_head' = b.sell_head
           /\ effectivebid' = b.effectivebid
           /\ effectiveask' = b.effectiveask
           /\ executions' = b.executions
    /\ incoming' = NoRow
    /\ UNCHANGED <<now, loop_nd, savefile, twin, cmp>>

\* book.save() and print(book) at the end of main(): the process exits
save ==
    /\ pc = "idle"
    /\ savefile' = [kind |-> "pickle", data |-> pickle_dump(Book)]
    /\ pc' = "exited"
    /\ UNCHANGED <<nodes, buy_head, sell_head, effectivebid, effectiveask,
                   executions, now, incoming, loop_nd, twin, cmp>>

\* OrderBook.save when pickle.dump raises: open(savefile, 'wb') has already
\* emptied the file
save_raises ==
    /\ pc = "idle"
    /\ savefile' = [kind |-> "truncated"]
    /\ pc' = "failed"
    /\ UNCHANGED <<nodes, buy_head, sell_head, effectivebid, effectiveask,
                   executions, now, incoming, loop_nd, twin, cmp>>

\* No process is running and nothing was ever saved
InitPersist ==
    /\ nodes = OrderBook_init.nodes
    /\ buy_head = buy_terminal
    /\ sell_head = sell_terminal
    /\ effectivebid = PosInf
    /\ effectiveask = NegInf
    /\ executions = <<>>
    /\ now = 1
    /\ incoming = NoRow
    /\ pc = "exited"
    /\ loop_nd = None
    /\ savefile = [kind |-> "absent"]
    /\ twin = OrderBook_init
    /\ cmp = <<>>

\* Rows of a run, with or without a disclosed quantity
read_row ==
    /\ pc = "idle"
    /\ now <= MaxBatch
    /\ \E side \in {"B", "S"}, price \in 1..MaxPrice, vol \in 1..MaxVolume,
          visible \in {<<>>, <<1>>} :
          process_orders(side, price, vol, visible)
    /\ UNCHANGED <<pc, loop_nd, savefile, twin, cmp>>

NextPersist == main \/ read_row \/ save \/ save_raises

\* Runs of main() one after the other on the same save file
SpecPersist == InitPersist /\ [][NextPersist]_vars


\* ------------------------------------------------------ disclosed quantities
\* The trailing fields of a row: none, or one disclosed quantity
Visibles == {<<>>} \cup {<<d>> : d \in 0..MaxDisclosed}

\* One row with any visible field; the twin book is fed the same row
\* without it
read_disclosed ==
    /\ pc = "idle"
    /\ now <= MaxBatch
    /\ \E side \in {"B", "S"}, price \in 1..MaxStepPrice,
          vol \in 1..MaxVolume, visible \in Visibles :
          /\ process_orders(side, price, vol, visible)
          /\ twin' = process_order(
                        [twin EXCEPT !.nodes =
                            @ @@ (now :> Order(now, side, price, vol, <<>>, now))],
                        now)
    /\ UNCHANGED <<pc, loop_nd, savefile, cmp>>

\* A batch of rows that may disclose quantities, next to its twin
SpecIceberg == Init /\ [][read_disclosed]_vars


\* --------------------------------------------------------------- comparisons
\* self < other, self > other, self <= other, self >= other between two
\* orders of one class
lt(self, other) ==
    IF self.side = "B" THEN BuyOrder_lt(self, other)
    ELSE SellOrder_lt(self, other)
gt(self, other) ==
    IF self.side = "B" THEN BuyOrder_gt(self, other)
    ELSE SellOrder_gt(self, other)
ge(self, other) ==
    IF self.side = "B" THEN BuyOrder_ge(self, other)
    ELSE SellOrder_ge(self, other)

\* Three orders of one side, of any prices and order times
InitCompare ==
    /\ nodes = OrderBook_init.nodes
    /\ buy_head = buy_terminal
    /\ sell_head = sell_terminal
    /\ effectivebid = PosInf
    /\ effectiveask = NegInf
    /\ executions = <<>>
    /\ now = 1
    /\ incoming = NoRow
    /\ pc = "idle"
    /\ loop_nd = None
    /\ savefile = [kind |-> "absent"]
    /\ twin = OrderBook_init
    /\ \E side \in {"B", "S"} :
         \E pa \in 1..MaxPrice, pb \in 1..MaxPrice, pc3 \in 1..MaxPrice :
           \E ta \in 1..MaxOrders, tb \in 1..MaxOrders, tc \in 1..MaxOrders :
             cmp = [a   |-> Order(1, side, pa, 1, <<>>, ta),
                    b   |-> Order(2, side, pb, 1, <<>>, tb),
                    c   |-> Order(3, side, pc3, 1, <<>>, tc),
                    res |-> <<>>]

\* Evaluate the comparisons on the three orders
compare ==
    /\ cmp.res = <<>>
    /\ cmp' = [cmp EXCEPT !.res =
                 [lt_ab |-> lt(cmp.a, cmp.b), gt_ab |-> gt(cmp.a, cmp.b),
                  le_ab |-> le(cmp.a, cmp.b), ge_ab |-> ge(cmp.a, cmp.b),
                  eq_ab |-> Order_eq(cmp.a, cmp.b),
                  gt_ba |-> gt(cmp.b, cmp.a),
                  lt_bc |-> lt(cmp.b, cmp.c), lt_ac |-> lt(cmp.a, cmp.c)]]
    /\ UNCHANGED <<nodes, buy_head, sell_head, effectivebid, effectiveask,
                   executions, now, incoming, pc, loop_nd, savefile, twin>>

SpecCompare == InitCompare /\ [][compare]_vars


\* ------------------------------------------- one loop iteration at a time
\* The order a call under way is processing
current == incoming.orderid

\* process_orders takes the next row: the Order is built and the branch of
\* the if / elif is chosen.  The row is a unit order or one of the largest
\* volume.  The twin book keeps the book as the call found it, with the new
\* Order.
start_row ==
    /\ pc = "idle"
    /\ now <= MaxOrders
    /\ \E side \in {"B", "S"}, price \in 1..MaxStepPrice,
          vol \in {1, MaxStepVolume} :
          /\ incoming' = [orderid |-> now, side |-> side, price |-> price,
                          volume |-> vol, visible |-> <<>>]
          /\ nodes' = nodes @@ (now :> Order(now, side, price, vol, <<>>, now))
          /\ twin' = [Book EXCEPT !.nodes =
                          @ @@ (now :> Order(now, side, price, vol, <<>>, now))]
          /\ IF side = "B" /\ price >= effectiveask
             THEN pc' = "_process_buy" /\ loop_nd' = sell_head
             ELSE IF side = "S" /\ price <= effectivebid
             THEN pc' = "_process_sell" /\ loop_nd' = buy_head
             ELSE pc' = "add_to_book" /\ loop_nd' = None
    /\ now' = now + 1
    /\ UNCHANGED <<buy_head, sell_head, effectivebid, effectiveask,
                   executions, savefile, cmp>>

\* Variant of sell_break that never leaves the loop
sell_break_never(b, o) == FALSE

\* `if not order.volume: break` in _process_sell
sell_break(b, o) == b.nodes[o].volume = 0

\* `if not order.volume: break` in _process_buy
buy_break(b, o) == b.nodes[o].volume = 0

\* The test of the while loop of _process_buy, then one iteration
buy_step ==
    /\ pc = "_process_buy"
    /\ IF nodes[loop_nd].nextnd # None
          /\ nodes[loop_nd].price <= nodes[current].price
       THEN LET r == buy_iteration(Book, current, loop_nd)
            IN  /\ nodes' = r.b.nodes
                /\ sell_head' = r.b.sell_head
                /\ effectiveask' = r.b.effectiveask
                /\ executions' = r.b.executions
                /\ IF buy_break(r.b, current)
                   THEN pc' = "add_to_book" /\ loop_nd' = None
                   ELSE pc' = pc /\ loop_nd' = r.nd
       ELSE /\ pc' = "add_to_book"
            /\ loop_nd' = None
            /\ UNCHANGED <<nodes, sell_head, effectiveask, executions>>
    /\ UNCHANGED <<buy_head, effectivebid, now, incoming, savefile, twin, cmp>>

\* The test of the while loop of _process_sell, then one iteration
sell_step ==
    /\ pc = "_process_sell"
    /\ IF nodes[loop_nd].nextnd # None
          /\ nodes[loop_nd].price >= nodes[current].price
       THEN LET r == sell_iteration(Book, current, loop_nd)
            IN  /\ nodes' = r.b.nodes
                /\ buy_head' = r.b.buy_head
                /\ effectivebid' = r.b.effectivebid
                /\ executions' = r.b.executions
                /\ IF sell_break(r.b, current)
                   THEN pc' = "add_to_book" /\ loop_nd' = None
                   ELSE pc' = pc /\ loop_nd' = r.nd
       ELSE /\ pc' = "add_to_book"
            /\ loop_nd' = None
            /\ UNCHANGED <<nodes, buy_head, effectivebid, executions>>
    /\ UNCHANGED <<sell_head, effectiveask, now, incoming, savefile, twin, cmp>>

\* `if order.volume: self.add_to_book(order)`, the end of the loop body
add_step ==
    /\ pc = "add_to_book"
    /\ \E b \in {IF nodes[current].volume # 0 THEN add_to_book(Book, current)
                  ELSE Book} :
           /\ nodes' = b.nodes
           /\ buy_head' = b.buy_head
           /\ sell_head' = b.sell_head
           /\ effectivebid' = b.effectivebid
           /\ effectiveask' = b.effectiveask
    /\ pc' = "idle"
    /\ UNCHANGED <<executions, now, incoming, loop_nd, savefile, twin, cmp>>

NextSteps == start_row \/ buy_step \/ sell_step \/ add_step

\* process_orders runs to completion: nothing suspends the single thread
SpecSteps == Init /\ [][NextSteps]_vars /\ WF_vars(NextSteps)

\* ------------------------------------------------------------ properties
\* Priority as section 4.1 of the specification states it: the better price
\* first (higher for Buy, lower for Sell), then the earlier arrival.
HigherPriority(a, b) ==
    \/ IF a.side = "B" THEN a.price > b.price ELSE a.price < b.price
    \/ a.price = b.price /\ a.ordertime < b.ordertime

Opposite(side) == IF side = "B" THEN "S" ELSE "B"
Terminal(side) == IF side = "B" THEN buy_terminal ELSE sell_terminal
Resting(side) == fetch_orders(Book, side)
Range(s) == {s[i] : i \in 1..Len(s)}
Position(s, x) == CHOOSE i \in 1..Len(s) : s[i] = x

RECURSIVE SumVolume(_)
SumVolume(reports) ==
    IF reports = <<>> THEN 0
    ELSE Head(reports)[4] + SumVolume(Tail(reports))

\* A process call has happened: incoming is the row it decoded
Called == incoming.orderid # None
\* The executions confirmed by the last process call (row ids are unique)
CallReports == SelectSeq(executions, LAMBDA r : r[1] = incoming.orderid)

PriorityOrdered(side) ==
    LET s == Resting(side)
    IN  \A i, j \in 1..Len(s) :
            i < j => HigherPriority(nodes[s[i]], nodes[s[j]])

\* C1: after every process call each side's chain is strictly priority
\* ordered from head to tail (buy prices non-increasing, sell prices
\* non-decreasing, the earlier arrival first among equal prices).
C1_ChainsPriorityOrdered == PriorityOrdered("B") /\ PriorityOrdered("S")

\* C2: an order that rests is placed immediately before the first resting
\* order of strictly lower priority; when every order of a non-empty chain
\* has priority at least the new order's, it is linked immediately before
\* the terminal node as the new tail, and the head and the effective price
\* of the side stay what they were.
C2_InsertBeforeFirstLower ==
    [][ LET o     == incoming'.orderid
            side  == incoming'.side
            pre   == fetch_orders(Book, side)
            post  == fetch_orders(Book', side)
            lower == {i \in 1..Len(pre) :
                         HigherPriority(nodes'[o], nodes'[pre[i]])}
            k     == IF lower = {} THEN Len(pre) + 1 ELSE SetMin(lower)
        IN  nodes'[o].volume > 0 =>
              /\ post = SubSeq(pre, 1, k - 1) \o <<o>> \o SubSeq(pre, k, Len(pre))
              /\ (lower = {} /\ pre # <<>>) =>
                    /\ nodes'[o].nextnd = Terminal(side)
                    /\ Head(post) = Head(pre)
                    /\ IF side = "B" THEN effectivebid' = effectivebid
                       ELSE effectiveask' = effectiveask
      ]_vars

\* C3: of two resting orders of one side at the same price, the one that
\* arrived earlier is closer to the head, in every reachable state.
C3_TimePriorityPreserved ==
    \A side \in {"B", "S"} :
        LET s == Resting(side)
        IN  \A x, y \in Range(s) :
                (nodes[x].price = nodes[y].price
                 /\ nodes[x].ordertime < nodes[y].ordertime)
                => Position(s, x) < Position(s, y)

\* C4: effectivebid is the price of the head resting buy, or +infinity when
\* no buy rests; effectiveask is the price of the head resting sell, or
\* -infinity when no sell rests (so an emptied side reads as a fresh one).
C4_EffectivePricesTrackHeads ==
    /\ effectivebid = IF Resting("B") = <<>> THEN PosInf
                      ELSE nodes[Head(Resting("B"))].price
    /\ effectiveask = IF Resting("S") = <<>> THEN NegInf
                      ELSE nodes[Head(Resting("S"))].price

\* C5: the transacted quantities of the executions of one process call add
\* up to the incoming order's quantity at the start of the call minus its
\* quantity at the end of the call.
C5_TransactedSum ==
    Called => SumVolume(CallReports)
                = incoming.volume - nodes[incoming.orderid].volume

\* A call that filled two open orders and left a balance
C5_Witness ==
    /\ Called
    /\ Len(CallReports) = 2
    /\ nodes[incoming.orderid].volume > 0

\* C6: the k-th execution of a call is (incoming id, id of the head of the
\* opposite chain, that head's price, min(incoming quantity, head quantity)
\* before the fill); the heads before it were filled completely.
C6_ReportIsMakerPriceAndMin ==
    [][ LET o   == incoming'.orderid
            R   == SubSeq(executions', Len(executions) + 1, Len(executions'))
            opp == fetch_orders(Book, Opposite(incoming'.side))
            left(k) == incoming'.volume - SumVolume(SubSeq(R, 1, k - 1))
        IN  /\ SubSeq(executions', 1, Len(executions)) = executions
            /\ Len(R) <= Len(opp)
            /\ \A k \in 1..Len(R) :
                  /\ R[k] = << o, nodes[opp[k]].orderid, nodes[opp[k]].price,
                               Min(left(k), nodes[opp[k]].volume) >>
                  /\ k < Len(R) => R[k][4] = nodes[opp[k]].volume
      ]_vars

\* A call that traded at a maker's price other than its own limit
C6_Witness ==
    /\ Called
    /\ \E i \in 1..Len(CallReports) : CallReports[i][3] # incoming.price

\* C7: an incoming order whose quantity is zero after matching is in no
\* chain; one whose quantity is still positive rests in its own side's
\* chain, once, with that remaining quantity and its original price.
C7_RestsIffBalance ==
    Called =>
      LET o   == incoming.orderid
          own == Resting(incoming.side)
          opp == Resting(Opposite(incoming.side))
      IN  /\ nodes[o].volume = 0 => o \notin Range(own) \cup Range(opp)
          /\ nodes[o].volume > 0 =>
                /\ Cardinality({i \in 1..Len(own) : own[i] = o}) = 1
                /\ o \notin Range(opp)
                /\ nodes[o].price = incoming.price
                /\ nodes[o].side = incoming.side
                /\ nodes[o].volume = incoming.volume - SumVolume(CallReports)

\* A partially filled incoming order resting on its own side
C7_Witness ==
    /\ Called
    /\ CallReports # <<>>
    /\ nodes[incoming.orderid].volume > 0
    /\ incoming.orderid \in Range(Resting(incoming.side))

\* C8: a Buy below the effective ask, and a Sell above the effective bid,
\* is not matched: the call confirms no execution and leaves the opposite
\* chain, its orders and its effective price as they were.
C8_GatedOnEffectivePrice ==
    [][ LET row  == incoming'
            skip == \/ row.side = "B" /\ ~(row.price >= effectiveask)
                    \/ row.side = "S" /\ ~(row.price <= effectivebid)
            opp  == fetch_orders(Book, Opposite(row.side))
        IN  skip =>
              /\ executions' = executions
              /\ fetch_orders(Book', Opposite(row.side)) = opp
              /\ \A n \in Range(opp) : nodes'[n] = nodes[n]
              /\ IF row.side = "B" THEN effectiveask' = effectiveask
                 ELSE effectivebid' = effectivebid
      ]_vars

\* A Buy that arrived below the ask of a non-empty sell side while buys
\* at or above its price were resting
C8_Witness ==
    /\ Called
    /\ incoming.side = "B"
    /\ Resting("S") # <<>>
    /\ incoming.price < effectiveask
    /\ \E n \in Range(Resting("B")) :
          n # incoming.orderid /\ nodes[n].price >= incoming.price

\* C9: an incoming Sell at or below the effective bid consumes the resting
\* bids best price first (each maker's price is no better than the one
\* before it, and no resting bid priced better than a matched bid is left
\* unmatched) until no resting bid crosses its price or it is exhausted;
\* a remainder rests on its own side at its own price.  The same for an
\* incoming Buy at or above the effective ask against the asks.
C9_ConsumesBestFirst ==
    [][ LET row     == incoming'
            o       == row.orderid
            R       == SubSeq(executions', Len(executions) + 1, Len(executions'))
            opp     == fetch_orders(Book, Opposite(row.side))
            oppPost == fetch_orders(Book', Opposite(row.side))
            gate    == IF row.side = "S" THEN row.price <= effectivebid
                       ELSE row.price >= effectiveask
            crosses(p)   == IF row.side = "S" THEN p >= row.price
                            ELSE p <= row.price
            better(p, q) == IF row.side = "S" THEN p > q ELSE p < q
            makers  == {R[k][2] : k \in 1..Len(R)}
        IN  gate =>
              /\ \A k \in 1..(Len(R) - 1) : ~ better(R[k + 1][3], R[k][3])
              /\ \A k \in 1..Len(R) : \A n \in Range(opp) :
                    better(nodes[n].price, R[k][3]) => nodes[n].orderid \in makers
              /\ \/ nodes'[o].volume = 0
                 \/ \A n \in Range(oppPost) : ~ crosses(nodes'[n].price)
              /\ nodes'[o].volume > 0 =>
                    /\ o \in Range(fetch_orders(Book', row.side))
                    /\ nodes'[o].price = row.price
      ]_vars

\* C10: when an incoming Buy trades, every resting ask priced at or below
\* its limit is consumed completely and the Buy still has quantity left,
\* then the executions are in ascending ask-price order, every consumed ask
\* has left the sell chain, and the remainder is the new best bid: head of
\* the buy chain, effectivebid at its price, no resting buy priced higher.
C10_SweepLeavesBestBid ==
    [][ LET row  == incoming'
            o    == row.orderid
            R    == SubSeq(executions', Len(executions) + 1, Len(executions'))
            asks == fetch_orders(Book, "S")
            atOrBelow == {n \in Range(asks) : nodes[n].price <= row.price}
            swept == /\ row.side = "B"
                     /\ R # <<>>
                     /\ \A n \in atOrBelow : nodes'[n].volume = 0
                     /\ nodes'[o].volume > 0
        IN  swept =>
              /\ \A k \in 1..(Len(R) - 1) : R[k][3] <= R[k + 1][3]
              /\ \A n \in atOrBelow : n \notin Range(fetch_orders(Book', "S"))
              /\ buy_head' = o
              /\ effectivebid' = row.price
              /\ \A n \in Range(fetch_orders(Book', "B")) :
                    nodes'[n].price <= row.price
      ]_vars

\* C11: when the opposite side holds no resting order, processing an
\* incoming order confirms no execution and the order rests on its own side
\* with its full quantity; if its own side was empty too, it is the only
\* resting order and the head of its chain.
C11_EmptyOppositeRestsWhole ==
    [][ LET row  == incoming'
            o    == row.orderid
            opp  == fetch_orders(Book, Opposite(row.side))
            own  == fetch_orders(Book, row.side)
            post == fetch_orders(Book', row.side)
        IN  opp = <<>> =>
              /\ executions' = executions
              /\ Cardinality({i \in 1..Len(post) : post[i] = o}) = 1
              /\ nodes'[o].volume = row.volume
              /\ nodes'[o].price = row.price
              /\ own = <<>> =>
                    /\ post = <<o>>
                    /\ (IF row.side = "B" THEN buy_head' ELSE sell_head') = o
      ]_vars

\* An order resting alone after matching had emptied the opposite side
C11_Witness ==
    /\ Called
    /\ executions # <<>>
    /\ CallReports = <<>>
    /\ Resting(Opposite(incoming.side)) = <<>>
    /\ Resting(incoming.side) = <<incoming.orderid>>
    /\ nodes[incoming.orderid].volume = incoming.volume

SnapshotOrdered(data) ==
    \A side \in {"B", "S"} :
        LET s == fetch_orders([data EXCEPT !.nodes = data.nodes], side)
        IN  \A i, j \in 1..Len(s) :
                i < j => HigherPriority(data.nodes[s[i]], data.nodes[s[j]])

\* C13: a run that finds the persisted data absent, truncated or holding a
\* mis-ordered chain ends in an error: it goes on neither with an empty
\* book nor with the mis-ordered one.
C13_RestoreFailsExplicitly ==
    [][ (pc \in {"exited", "failed"}
         /\ \/ savefile.kind \in {"absent", "truncated"}
            \/ savefile.kind = "pickle" /\ ~ SnapshotOrdered(savefile.data))
        => pc' = "failed"
      ]_vars

\* The orders created so far
Orders == {n \in DOMAIN nodes : n > 0}

\* C14: an order's visible quantity is min(disclosed quantity, quantity)
\* whenever a disclosed quantity was set at creation, a disclosed quantity
\* of 0 included, and its quantity otherwise; so it never exceeds the
\* quantity.
C14_VisibleIsMinOfDisclosed ==
    /\ \A n \in Orders :
          /\ visible_volume(nodes[n])
                = IF nodes[n].iceberg # None
                  THEN Min(nodes[n].iceberg, nodes[n].volume)
                  ELSE nodes[n].volume
          /\ visible_volume(nodes[n]) <= nodes[n].volume
    /\ Called =>
          nodes[incoming.orderid].iceberg
             = IF incoming.visible # <<>> THEN incoming.visible[1] ELSE None

\* C15: the executions, the chains and the true quantities of the resting
\* orders are those of the run fed the same rows without any disclosed
\* quantity (so any two runs that differ only in disclosed quantities
\* agree).
C15_MatchingIgnoresDisclosed ==
    /\ executions = twin.executions
    /\ buy_head = twin.buy_head
    /\ sell_head = twin.sell_head
    /\ effectivebid = twin.effectivebid
    /\ effectiveask = twin.effectiveask
    /\ \A side \in {"B", "S"} :
          /\ Resting(side) = fetch_orders(twin, side)
          /\ \A n \in Range(Resting(side)) :
                /\ nodes[n].volume = twin.nodes[n].volume
                /\ nodes[n].price = twin.nodes[n].price
                /\ nodes[n].orderid = twin.nodes[n].orderid

\* A single match that took more than the maker's disclosed quantity
C15_Witness ==
    \E i \in 1..Len(executions) :
        LET maker == nodes[executions[i][2]]
        IN  /\ maker.iceberg # None
            /\ maker.iceberg > 0
            /\ executions[i][4] > maker.iceberg

\* C16: for two orders a, b of one side, a > b exactly when a has the
\* better price or the same price and the earlier arrival, a < b exactly
\* when b has, and they tie exactly at equal price and arrival; so exactly
\* one of a < b, a > b, tie holds, a < b iff b > a, a <= b iff not a > b,
\* a >= b iff not a < b, and < is transitive.
C16_ComparisonIsTotalPreorder ==
    cmp.res # <<>> =>
      LET r   == cmp.res
          tie == cmp.a.price = cmp.b.price /\ cmp.a.ordertime = cmp.b.ordertime
      IN  /\ r.gt_ab <=> HigherPriority(cmp.a, cmp.b)
          /\ r.lt_ab <=> HigherPriority(cmp.b, cmp.a)
          /\ r.eq_ab <=> tie
          /\ Cardinality({x \in {"lt", "gt", "tie"} :
                             \/ x = "lt" /\ r.lt_ab
                             \/ x = "gt" /\ r.gt_ab
                             \/ x = "tie" /\ tie}) = 1
          /\ r.lt_ab <=> r.gt_ba
          /\ r.le_ab <=> ~ r.gt_ab
          /\ r.ge_ab <=> ~ r.lt_ab
          /\ (r.lt_ab /\ r.lt_bc) => r.lt_ac

\* Three orders at one price in reverse order of arrival, compared
C16_Witness ==
    /\ cmp.res # <<>>
    /\ cmp.a.price = cmp.b.price
    /\ cmp.b.price = cmp.c.price
    /\ cmp.a.ordertime > cmp.b.ordertime
    /\ cmp.res.lt_ab
    /\ cmp.res.lt_bc
    /\ cmp.res.lt_ac

\* The nodes met from nd along nextnd, the last one included, at most fuel
RECURSIVE FollowNext(_, _, _)
FollowNext(nds, nd, fuel) ==
    IF nd = None \/ fuel = 0 THEN <<>>
    ELSE <<nd>> \o FollowNext(nds, nds[nd].nextnd, fuel - 1)

\* C17: each side's chain is finite and acyclic and its last node is that
\* side's terminal node, which is still the one __init__ built; traversal
\* yields exactly the nodes before it, once each; the terminal node is
\* never the maker of an execution.
C17_ChainEndsInTerminal ==
    /\ \A side \in {"B", "S"} :
          LET head == IF side = "B" THEN buy_head ELSE sell_head
              size == Cardinality(DOMAIN nodes)
              path == FollowNext(nodes, head, size + 1)
          IN  /\ Len(path) >= 1
              /\ Len(path) <= size
              /\ Cardinality(Range(path)) = Len(path)
              /\ path[Len(path)] = Terminal(side)
              /\ Resting(side) = SubSeq(path, 1, Len(path) - 1)
              /\ \A n \in Range(Resting(side)) :
                    /\ n \in Orders
                    /\ nodes[n].orderid # None
                    /\ nodes[n].side = side
              /\ nodes[Terminal(side)].orderid = None
              /\ nodes[Terminal(side)].volume = 0
              /\ nodes[Terminal(side)].nextnd = None
              /\ nodes[Terminal(side)].price
                    = IF side = "B" THEN NegInf ELSE PosInf
    /\ \A i \in 1..Len(executions) : executions[i][2] # None

\* Matching has just consumed every resting order of the opposite side
C17_Witness ==
    /\ Called
    /\ Len(CallReports) >= 2
    /\ Resting(Opposite(incoming.side)) = <<>>
    /\ (IF incoming.side = "B" THEN sell_head ELSE buy_head)
          = Terminal(Opposite(incoming.side))

\* C18: the resting orders a call fills to zero are the first ones of the
\* opposite chain and are unlinked, the one after them becoming the head;
\* after the call every resting order of either side has a positive
\* quantity.
C18_FilledOrdersUnlinked ==
    [][ LET row  == incoming'
            pre  == fetch_orders(Book, Opposite(row.side))
            post == fetch_orders(Book', Opposite(row.side))
            zero == {i \in 1..Len(pre) : nodes'[pre[i]].volume = 0}
        IN  /\ zero = 1..Cardinality(zero)
            /\ post = SubSeq(pre, Cardinality(zero) + 1, Len(pre))
            /\ \A side \in {"B", "S"} :
                  \A n \in Range(fetch_orders(Book', side)) :
                      nodes'[n].volume > 0
      ]_vars

\* A call filled the head of the opposite chain and its successor is the
\* new head
C18_Witness ==
    /\ Called
    /\ CallReports # <<>>
    /\ nodes[CallReports[1][2]].volume = 0
    /\ nodes[CallReports[1][2]].nextnd
          = (IF incoming.side = "B" THEN sell_head ELSE buy_head)
    /\ Resting(Opposite(incoming.side)) # <<>>

\* C20: after every process call every resting buy is priced strictly below
\* every resting sell.
C20_BookNeverCrossed ==
    \A x \in Range(Resting("B")) : \A y \in Range(Resting("S")) :
        nodes[x].price < nodes[y].price

\* Between two rows the book built step by step is the book process_order
\* computes in one go from the book the call found
StepsAgreeWithCall ==
    (pc = "idle" /\ Called) => Book = process_order(twin, current)

\* C19: every loop iteration that does not leave the loop has removed the
\* head of the opposite chain; rows are taken one after the other, each
\* only when the call before it is over; every call under way comes to its
\* end, and the whole batch is processed, leaving a final book.
C19_EveryCallTerminates ==
    /\ [][ /\ (pc \in {"_process_buy", "_process_sell"} /\ pc' = pc) =>
                LET side == Opposite(incoming.side)
                IN  /\ Resting(side) # <<>>
                    /\ fetch_orders(Book', side) = Tail(Resting(side))
           /\ incoming' # incoming =>
                /\ pc = "idle"
                /\ incoming'.orderid = now
                /\ now' = now + 1
         ]_vars
    /\ (pc # "idle") ~> (pc = "idle")
    /\ <>[](pc = "idle" /\ now = MaxOrders + 1)

\* A call in its second loop iteration
C19_Witness ==
    /\ pc \in {"_process_buy", "_process_sell"}
    /\ Len(CallReports) >= 1
    /\ nodes[current].volume > 0
    /\ Resting(Opposite(incoming.side)) # <<>>

\* The quantities of the orders of a chain, added up
RECURSIVE ChainVolume(_, _)
ChainVolume(nds, s) ==
    IF s = <<>> THEN 0
    ELSE nds[Head(s)].volume + ChainVolume(nds, Tail(s))

\* The total resting quantity of both sides of a book
RestingVolume(b) ==
    ChainVolume(b.nodes, fetch_orders(b, "B"))
        + ChainVolume(b.nodes, fetch_orders(b, "S"))

\* C21: quantity is conserved.  The book starts with nothing resting and
\* nothing transacted; each process call takes from the incoming order the
\* sum of the quantities it reports and from every resting order exactly
\* what the reports naming it as maker say (nothing from any other order),
\* so the total resting quantity plus twice the total transacted quantity
\* grows by the quantity of the order submitted; no quantity is negative.
C21_QuantityConserved ==
    /\ RestingVolume(Book) = 0 /\ executions = <<>>
    /\ [][ LET o == incoming'.orderid
               R == SubSeq(executions', Len(executions) + 1, Len(executions'))
               made(n) == SumVolume(SelectSeq(R, LAMBDA r : r[2] = n))
           IN  /\ incoming'.volume - nodes'[o].volume = SumVolume(R)
               /\ \A n \in DOMAIN nodes :
                     nodes[n].volume - nodes'[n].volume = made(n)
               /\ \A k \in 1..Len(R) : R[k][4] > 0
               /\ RestingVolume(Book') + 2 * SumVolume(executions')
                     = RestingVolume(Book) + 2 * SumVolume(executions)
                          + incoming'.volume
               /\ \A n \in DOMAIN nodes' : nodes'[n].volume >= 0
         ]_vars

\* A call traded and left quantity resting on both sides of the book
C21_Witness ==
    /\ Called
    /\ CallReports # <<>>
    /\ ChainVolume(nodes, Resting("B")) > 0
    /\ ChainVolume(nodes, Resting("S")) > 0

\* C22: within one process call every maker reported before the last report
\* is filled to zero and is in no chain afterwards; the makers are distinct,
\* so at most one resting order is left partially filled, the maker of the
\* last report; when that maker keeps a positive quantity the incoming order
\* ends with quantity zero and the maker is still the head of the opposite
\* chain.
C22_OnlyLastMakerPartial ==
    [][ LET row  == incoming'
            o    == row.orderid
            R    == SubSeq(executions', Len(executions) + 1, Len(executions'))
            opp  == fetch_orders(Book', Opposite(row.side))
            own  == fetch_orders(Book', row.side)
            head == IF row.side = "B" THEN sell_head' ELSE buy_head'
        IN  /\ \A j, k \in 1..Len(R) : j # k => R[j][2] # R[k][2]
            /\ \A k \in 1..(Len(R) - 1) :
                  /\ nodes'[R[k][2]].volume = 0
                  /\ R[k][2] \notin Range(opp) \cup Range(own)
                  /\ R[k][2] # head
            /\ Cardinality({n \in DOMAIN nodes :
                              /\ nodes'[n].volume # nodes[n].volume
                              /\ nodes'[n].volume > 0}) <= 1
            /\ \A n \in DOMAIN nodes :
                  (nodes'[n].volume # nodes[n].volume /\ nodes'[n].volume > 0)
                      => (R # <<>> /\ n = R[Len(R)][2])
            /\ (R # <<>> /\ nodes'[R[Len(R)][2]].volume > 0) =>
                  /\ nodes'[o].volume = 0
                  /\ o \notin Range(own)
                  /\ opp # <<>>
                  /\ Head(opp) = R[Len(R)][2]
                  /\ head = R[Len(R)][2]
                  /\ nodes'[head].prevnd = None
      ]_vars

\* A call filled one maker and left the next one partially filled
C22_Witness ==
    /\ Called
    /\ Len(CallReports) >= 2
    /\ nodes[CallReports[1][2]].volume = 0
    /\ nodes[CallReports[Len(CallReports)][2]].volume > 0
    /\ nodes[incoming.orderid].volume = 0

\* C23: a process call changes the id, side, price, arrival time and
\* disclosed quantity of no order that was resting when it began; on the
\* incoming order's own side it changes no quantity, and the chain after
\* the call is the chain before it with, when the incoming order keeps a
\* balance, that order inserted once, and nothing else.
C23_OwnSideOnlyGainsRemainder ==
    [][ LET row  == incoming'
            o    == row.orderid
            pre  == fetch_orders(Book, row.side)
            post == fetch_orders(Book', row.side)
            opp  == fetch_orders(Book, Opposite(row.side))
        IN  /\ \A n \in Range(pre) \cup Range(opp) :
                  /\ nodes'[n].orderid = nodes[n].orderid
                  /\ nodes'[n].side = nodes[n].side
                  /\ nodes'[n].price = nodes[n].price
                  /\ nodes'[n].ordertime = nodes[n].ordertime
                  /\ nodes'[n].iceberg = nodes[n].iceberg
            /\ \A n \in Range(pre) : nodes'[n].volume = nodes[n].volume
            /\ SelectSeq(post, LAMBDA n : n # o) = pre
            /\ Len(post) = Len(pre) + (IF nodes'[o].volume > 0 THEN 1 ELSE 0)
            /\ o \notin Range(pre)
      ]_vars

\* The balance of an order was inserted between two orders resting on its
\* own side
C23_Witness ==
    /\ Called
    /\ Len(Resting(incoming.side)) = 3
    /\ Resting(incoming.side)[2] = incoming.orderid

====
